---- MODULE Spec2Model ----
(***************************************************************************)
(* Cozmonaut application: the service registry (src/src/service.c), the    *)
(* Python runtime host service and its output line buffers                 *)
(* (src/src/service/python.c), and the console service                     *)
(* (src/src/service/console.c).                                            *)
(*                                                                         *)
(* Five specifications share the module's variables:                       *)
(*   SpecRegistry  one caller driving service_load/unload/start/stop/call  *)
(*                 on one service;                                         *)
(*   SpecBuf       writes and flushes on the cstdout line buffer;          *)
(*   SpecHost      threads calling into the Python service;                *)
(*   SpecConsole   the console service, its input thread and SIGINT;       *)
(*   SpecSinks     threads writing to the cstdout and cstderr sinks.       *)
(***************************************************************************)
EXTENDS Integers, Sequences, FiniteSets, TLC

VARIABLES
    \* ---- service registry (struct service, struct service_state) ----
    svc_state,      \* svc->state: "NULL", "LIVE" (malloc'ed) or "FREED" (dangling)
    svc_started,    \* svc->state->started while the state object is live
    svc_iface,      \* TRUE iff svc->iface is not NULL
    aborted,        \* the process was killed (abort, segmentation fault)
    hist,           \* the registry calls that returned: <<operation, return code>>
    last,           \* what the last registry call did
    \* ---- cstdout line buffer of one thread (python.c:403-407) ----
    cstdout_buf,      \* the bytes cstdout_buf points at (<<>> while it is NULL)
    cstdout_buf_null, \* TRUE iff cstdout_buf is NULL
    cstdout_buf_len,  \* cstdout_buf_len
    records,          \* the records handed to the log sink, oldest first
    written,          \* the concatenation of every text written so far
    bufop,            \* what the last write or flush did
    nbufops,          \* the writes and flushes made so far
    nflush,           \* the flushes made so far
    script,           \* how many writes of the four-write example were made, in order
    \* ---- Python runtime host service (python.c) ----
    pc,                   \* where each thread stands in its registry call
    job,                  \* the registry call each thread is in, and its argument
    python__thread_state, \* each thread's copy of the __thread variable: "NULL" or "TS"
    gil,                  \* the thread inside the interpreter's lock, or "none"
    tstate_current,       \* the interpreter's current thread state: "NULL" or "TS"
    py,                   \* the interpreter: "down", "up" or "finalized"
    python__op,           \* the selected operation
    python__op_selected,  \* nonzero iff an operation is selected
    ns_op,                \* the binding of `op` in the persistent namespace
    hret,                 \* what each thread's last registry call returned
    nhost,                \* the registry calls begun so far
    \* ---- console service (console.c) ----
    sigint_handler,       \* the disposition of SIGINT: "SIG_DFL" or "console__sigint"
    console__interrupted, \* the interrupt flag
    input_threads,        \* the console input threads alive
    cpc,                  \* the caller's position in console__proc_interrupted
    out_interrupted,      \* *out_interrupted as the procedure wrote it
    stop_seen,            \* "stop" was handled since the flag was last read
    sig_seen,             \* SIGINT set the flag since the flag was last read
    unreported,           \* a set of the flag no get-and-clear has reported yet
    conop,                \* what the last console step did
    ncon,                 \* the console steps made so far
    \* ---- the line buffers of every thread and stream (python.c:403-407, 525-529) ----
    sink_buf,             \* the buffer, its pointer's nullness and its length, per thread and stream
    sink_records,         \* the records handed to the log sink: level, thread and text
    sink_hist,            \* the writes and flushes made so far, per thread and stream
    sinkop,               \* what the last write or flush on a sink did
    nsink                 \* the writes and flushes on the sinks so far

regVars == <<svc_state, svc_started, svc_iface, aborted, hist, last>>

bufVars == <<cstdout_buf, cstdout_buf_null, cstdout_buf_len, records, written,
             bufop, nbufops, nflush, script>>

hostVars == <<pc, job, python__thread_state, gil, tstate_current, py, python__op,
              python__op_selected, ns_op, hret, nhost>>

conVars == <<sigint_handler, console__interrupted, input_threads, cpc,
             out_interrupted, stop_seen, sig_seen, unreported, conop, ncon>>

sinkVars == <<sink_buf, sink_records, sink_hist, sinkop, nsink>>

vars == <<regVars, bufVars, hostVars, conVars, sinkVars>>

\* What the registry calls leave alone, what the buffer leaves alone, what
\* the host's threads leave alone and what the console leaves alone.
notRegVars == <<bufVars, hostVars, conVars, sinkVars>>

notBufVars == <<svc_state, svc_started, svc_iface, hist, last, hostVars, conVars,
                sinkVars>>

notHostVars == <<svc_iface, hist, last, bufVars, conVars, sinkVars>>

notConVars == <<svc_iface, hist, last, bufVars, hostVars, sinkVars>>

notSinkVars == <<svc_state, svc_started, svc_iface, hist, last, bufVars, hostVars,
                 conVars>>

\* The longest sequence of registry calls explored.
MaxOps == 6

\* enum service_python_fn, and the procedure the lookup function returns for
\* each ordinal ("NULL" where the switch falls through).
Ordinals == 0..8

proc(fn) ==
    CASE fn = 0 -> "python__proc_op_exec"
      [] fn = 1 -> "python__proc_auto_enable"
      [] fn = 2 -> "python__proc_auto_disable"
      [] fn = 4 -> "python__proc_manual_advance"
      [] fn = 5 -> "python__proc_manual_return"
      [] fn = 6 -> "python__proc_manual_req_diversion_faces"
      [] fn = 7 -> "python__proc_manual_req_diversion_converse"
      [] fn = 8 -> "python__proc_manual_req_diversion_wander"
      [] OTHER  -> "NULL"

\* The ordinals the registry specification calls with: one forwarding
\* procedure, the select-and-execute procedure and the ordinal without one.
CallOrdinals == {0, 1, 3}

----------------------------------------------------------------------------
(* Service registry *)

NoCall == [op |-> "none", fn |-> -1, ret |-> 0, invoked |-> <<>>, code |-> 0]

\* The record of a call that returned.
Returned(op, fn, ret, invoked, code) ==
    /\ hist' = Append(hist, <<op, ret>>)
    /\ last' = [op |-> op, fn |-> fn, ret |-> ret, invoked |-> invoked, code |-> code]
    /\ UNCHANGED notRegVars

\* The process dies inside the call: nothing is returned.
Killed(op, fn, invoked) ==
    /\ aborted' = TRUE
    /\ last' = [op |-> op, fn |-> fn, ret |-> -1, invoked |-> invoked, code |-> 0]
    /\ UNCHANGED <<hist, notRegVars>>

CanCall == ~aborted /\ Len(hist) < MaxOps

\* The values a read of svc->state->started can yield: the field while the
\* object is live, anything once it has been freed.
ReadStarted == IF svc_state = "LIVE" THEN {svc_started} ELSE {0, 1}

\* The callback's return code when there is an interface; it is only logged.
CallbackCodes == IF svc_iface THEN {0, 1} ELSE {0}

Callback(name) == IF svc_iface THEN <<name>> ELSE <<>>

\* service_load without the test of svc->state: a loaded service is loaded
\* again.
service_load_again ==
    /\ CanCall
    /\ \E code \in CallbackCodes :
          /\ svc_state' = "LIVE"
          /\ svc_started' = 0
          /\ Returned("load", -1, 0, Callback("on_load"), code)
          /\ UNCHANGED <<svc_iface, aborted>>

service_load ==
    /\ CanCall
    /\ IF svc_state # "NULL"
         THEN /\ Returned("load", -1, 1, <<>>, 0)
              /\ UNCHANGED <<svc_state, svc_started, svc_iface, aborted>>
         ELSE \E code \in CallbackCodes :
              /\ svc_state' = "LIVE"
              /\ svc_started' = 0
              /\ Returned("load", -1, 0, Callback("on_load"), code)
              /\ UNCHANGED <<svc_iface, aborted>>

\* free(svc->state) leaves svc->state pointing at the freed object.
service_unload ==
    /\ CanCall
    /\ CASE svc_state = "NULL" ->
              /\ Returned("unload", -1, 1, <<>>, 0)
              /\ UNCHANGED <<svc_state, svc_started, svc_iface, aborted>>
         [] svc_state = "LIVE" ->
              \E code \in CallbackCodes :
              /\ svc_state' = "FREED"
              /\ Returned("unload", -1, 0, Callback("on_unload"), code)
              /\ UNCHANGED <<svc_started, svc_iface, aborted>>
         [] svc_state = "FREED" ->
              \* second free of the same object: detected (abort) or not
              \/ \E code \in CallbackCodes :
                 /\ Returned("unload", -1, 0, Callback("on_unload"), code)
                 /\ UNCHANGED <<svc_state, svc_started, svc_iface, aborted>>
              \/ /\ Killed("unload", -1, Callback("on_unload"))
                 /\ UNCHANGED <<svc_state, svc_started, svc_iface>>

\* service_start taking a nonzero code of on_start as a failure: the started
\* flag is taken back and 1 is returned.
service_start_strict ==
    /\ CanCall
    /\ IF svc_state = "NULL"
         THEN /\ Returned("start", -1, 1, <<>>, 0)
              /\ UNCHANGED <<svc_state, svc_started, svc_iface, aborted>>
         ELSE \E s \in ReadStarted :
              IF s # 0
                THEN /\ Returned("start", -1, 1, <<>>, 0)
                     /\ UNCHANGED <<svc_state, svc_started, svc_iface, aborted>>
                ELSE \E code \in CallbackCodes :
                     /\ svc_started' = IF code = 0 THEN 1 ELSE 0
                     /\ Returned("start", -1, code, Callback("on_start"), code)
                     /\ UNCHANGED <<svc_state, svc_iface, aborted>>

service_start ==
    /\ CanCall
    /\ IF svc_state = "NULL"
         THEN /\ Returned("start", -1, 1, <<>>, 0)
              /\ UNCHANGED <<svc_state, svc_started, svc_iface, aborted>>
         ELSE \E s \in ReadStarted :
              IF s # 0
                THEN /\ Returned("start", -1, 1, <<>>, 0)
                     /\ UNCHANGED <<svc_state, svc_started, svc_iface, aborted>>
                ELSE \E code \in CallbackCodes :
                     /\ svc_started' = 1
                     /\ Returned("start", -1, 0, Callback("on_start"), code)
                     /\ UNCHANGED <<svc_state, svc_iface, aborted>>

service_stop ==
    /\ CanCall
    /\ IF svc_state = "NULL"
         THEN /\ Returned("stop", -1, 1, <<>>, 0)
              /\ UNCHANGED <<svc_state, svc_started, svc_iface, aborted>>
         ELSE \E s \in ReadStarted :
              IF s = 0
                THEN /\ Returned("stop", -1, 1, <<>>, 0)
                     /\ UNCHANGED <<svc_state, svc_started, svc_iface, aborted>>
                ELSE \E code \in CallbackCodes :
                     /\ svc_started' = 0
                     /\ Returned("stop", -1, 0, Callback("on_stop"), code)
                     /\ UNCHANGED <<svc_state, svc_iface, aborted>>

\* service_call without the test of the started flag (service.c:141).
service_call_unguarded(fn) ==
    /\ CanCall
    /\ IF svc_state = "NULL"
         THEN /\ Returned("call", fn, 1, <<>>, 0)
              /\ UNCHANGED <<svc_state, svc_started, svc_iface, aborted>>
         ELSE CASE ~svc_iface ->
                     /\ Returned("call", fn, 0, <<>>, 0)
                     /\ UNCHANGED <<svc_state, svc_started, svc_iface, aborted>>
                [] svc_iface /\ proc(fn) = "NULL" ->
                     /\ Killed("call", fn, <<"proc">>)
                     /\ UNCHANGED <<svc_state, svc_started, svc_iface>>
                [] svc_iface /\ proc(fn) # "NULL" ->
                     \E code \in {0, 1} :
                     /\ Returned("call", fn, 0, <<"proc", proc(fn)>>, code)
                     /\ UNCHANGED <<svc_state, svc_started, svc_iface, aborted>>

\* service_call refusing a service that declares no interface.
service_call_needing_iface(fn) ==
    /\ CanCall
    /\ IF svc_state = "NULL"
         THEN /\ Returned("call", fn, 1, <<>>, 0)
              /\ UNCHANGED <<svc_state, svc_started, svc_iface, aborted>>
         ELSE \E s \in ReadStarted :
              CASE s = 0 ->
                     /\ Returned("call", fn, 1, <<>>, 0)
                     /\ UNCHANGED <<svc_state, svc_started, svc_iface, aborted>>
                [] s # 0 /\ ~svc_iface ->
                     /\ Returned("call", fn, 1, <<>>, 0)
                     /\ UNCHANGED <<svc_state, svc_started, svc_iface, aborted>>
                [] s # 0 /\ svc_iface /\ proc(fn) = "NULL" ->
                     /\ Killed("call", fn, <<"proc">>)
                     /\ UNCHANGED <<svc_state, svc_started, svc_iface>>
                [] s # 0 /\ svc_iface /\ proc(fn) # "NULL" ->
                     \E code \in {0, 1} :
                     /\ Returned("call", fn, 0, <<"proc", proc(fn)>>, code)
                     /\ UNCHANGED <<svc_state, svc_started, svc_iface, aborted>>

service_call(fn) ==
    /\ CanCall
    /\ IF svc_state = "NULL"
         THEN /\ Returned("call", fn, 1, <<>>, 0)
              /\ UNCHANGED <<svc_state, svc_started, svc_iface, aborted>>
         ELSE \E s \in ReadStarted :
              CASE s = 0 ->
                     /\ Returned("call", fn, 1, <<>>, 0)
                     /\ UNCHANGED <<svc_state, svc_started, svc_iface, aborted>>
                [] s # 0 /\ ~svc_iface ->
                     /\ Returned("call", fn, 0, <<>>, 0)
                     /\ UNCHANGED <<svc_state, svc_started, svc_iface, aborted>>
                [] s # 0 /\ svc_iface /\ proc(fn) = "NULL" ->
                     \* the call through a NULL function pointer
                     /\ Killed("call", fn, <<"proc">>)
                     /\ UNCHANGED <<svc_state, svc_started, svc_iface>>
                [] s # 0 /\ svc_iface /\ proc(fn) # "NULL" ->
                     \E code \in {0, 1} :
                     /\ Returned("call", fn, 0, <<"proc", proc(fn)>>, code)
                     /\ UNCHANGED <<svc_state, svc_started, svc_iface, aborted>>

----------------------------------------------------------------------------
(* Output line buffer: cstdout_write and cstdout_flush *)

NL == "\n"

\* The texts written: over one letter and the newline, every shape of a write
\* (empty, no newline, newline last, newline first, text after the newline,
\* several newlines), and the four writes of the documented example.
ExampleWrites ==
    << <<"a", "b", "c">>,
       <<"d", "e", "f", NL>>,
       <<"g", "h", "i", NL, "j">>,
       <<"k", "l", NL>> >>

Texts ==
    { <<>>, <<"x">>, <<NL>>, <<"x", NL>>, <<NL, "x">>, <<"x", NL, "x">>,
      <<"x", NL, "x", NL>>, <<NL, NL>> }

\* The longest sequence of writes and flushes explored.
MaxBufOps == 5

\* strchr(string, '\n'): the position of the first newline, 0 when none.
strchr_nl(string) ==
    IF \E i \in 1..Len(string) : string[i] = NL
      THEN CHOOSE i \in 1..Len(string) :
               string[i] = NL /\ \A j \in 1..(i - 1) : string[j] # NL
      ELSE 0

\* The loop over the remaining text without its search for further newlines:
\* all of the remaining text is buffered.
LogLines_unsplit(rest) == [lines |-> <<>>, tail |-> rest]

\* The loop over the text after the first newline (python.c:459-470): every
\* further newline-terminated line is logged; tail is what line_begin points
\* at when strchr finds no more newline.
RECURSIVE LogLines(_)
LogLines(rest) ==
    LET line_end == strchr_nl(rest)
    IN IF line_end = 0
         THEN [lines |-> <<>>, tail |-> rest]
         ELSE LET more == LogLines(SubSeq(rest, line_end + 1, Len(rest)))
              IN [lines |-> <<SubSeq(rest, 1, line_end - 1)>> \o more.lines,
                  tail |-> more.tail]

NoBufOp == [op |-> "none", text |-> <<>>, emitted |-> 0, alloc |-> 0, copied |-> 0]

CanBuf == ~aborted /\ nbufops < MaxBufOps

\* The position in the documented example after writing string.
ScriptAfter(string) ==
    IF script >= 0 /\ script < Len(ExampleWrites) /\ nflush = 0
       /\ string = ExampleWrites[script + 1]
      THEN script + 1
      ELSE -1

BufDone(op, text, emitted, alloc, copied) ==
    /\ bufop' = [op |-> op, text |-> text, emitted |-> emitted,
                 alloc |-> alloc, copied |-> copied]
    /\ nbufops' = nbufops + 1

\* cstdout_flush without the test of the buffer pointer (python.c:411).
cstdout_flush_untested ==
    /\ CanBuf
    /\ records' = Append(records, cstdout_buf)
    /\ cstdout_buf' = <<>>
    /\ cstdout_buf_null' = TRUE
    /\ cstdout_buf_len' = 0
    /\ BufDone("flush", <<>>, 1, 0, 0)
    /\ nflush' = nflush + 1
    /\ UNCHANGED <<written, script, aborted, notBufVars>>

cstdout_flush ==
    /\ CanBuf
    /\ IF ~cstdout_buf_null
         THEN /\ records' = Append(records, cstdout_buf)
              /\ cstdout_buf' = <<>>
              /\ cstdout_buf_null' = TRUE
              /\ cstdout_buf_len' = 0
              /\ BufDone("flush", <<>>, 1, 0, 0)
         ELSE /\ BufDone("flush", <<>>, 0, 0, 0)
              /\ UNCHANGED <<cstdout_buf, cstdout_buf_null, cstdout_buf_len, records>>
    /\ nflush' = nflush + 1
    /\ UNCHANGED <<written, script, aborted, notBufVars>>

\* The newline branch leaving the first line in the buffer instead of
\* logging it.
WriteWithNewline_kept(string, nl) ==
    /\ cstdout_buf' = SubSeq(cstdout_buf, 1, cstdout_buf_len) \o SubSeq(string, 1, nl - 1)
    /\ cstdout_buf_null' = FALSE
    /\ cstdout_buf_len' = cstdout_buf_len + (nl - 1)
    /\ BufDone("write", string, 0, 0, 0)
    /\ written' = written \o string
    /\ script' = ScriptAfter(string)
    /\ UNCHANGED <<records, aborted>>

\* The branch of cstdout_write for a text with a newline at position nl
\* (python.c:437-479). The second memcpy copies string_len bytes where the
\* concat buffer has room for nl of them: with text after the first newline
\* it writes past the allocation, after which the process may go on or die
\* (at the copy, or when the corrupted block is freed).
WriteWithNewline(string, nl) ==
    LET string_len == Len(string)
        buf_len == cstdout_buf_len + (nl - 1)
        alloc == buf_len + 1
        copied == cstdout_buf_len + string_len
        buf == SubSeq(SubSeq(cstdout_buf, 1, cstdout_buf_len) \o string, 1, buf_len)
        loop == LogLines(SubSeq(string, nl + 1, string_len))
    IN \/ /\ records' = IF nl # string_len
                          THEN Append(records, buf) \o loop.lines
                          ELSE Append(records, buf)
          /\ IF nl # string_len
               THEN /\ cstdout_buf' = loop.tail
                    /\ cstdout_buf_null' = FALSE
                    /\ cstdout_buf_len' = Len(loop.tail)
               ELSE /\ cstdout_buf' = <<>>
                    /\ cstdout_buf_null' = TRUE
                    /\ cstdout_buf_len' = 0
          /\ BufDone("write", string,
                     IF nl # string_len THEN 1 + Len(loop.lines) ELSE 1,
                     alloc, copied)
          /\ written' = written \o string
          /\ script' = ScriptAfter(string)
          /\ UNCHANGED aborted
       \/ /\ copied > alloc
          /\ aborted' = TRUE
          /\ bufop' = [op |-> "write", text |-> string, emitted |-> 0,
                       alloc |-> alloc, copied |-> copied]
          /\ UNCHANGED <<cstdout_buf, cstdout_buf_null, cstdout_buf_len, records,
                         written, nbufops, script>>
       \/ /\ copied > alloc
          /\ aborted' = TRUE
          /\ records' = Append(records, buf)
          /\ cstdout_buf' = <<>>
          /\ cstdout_buf_null' = TRUE
          /\ cstdout_buf_len' = 0
          /\ bufop' = [op |-> "write", text |-> string, emitted |-> 1,
                       alloc |-> alloc, copied |-> copied]
          /\ UNCHANGED <<written, nbufops, script>>

\* The branch for a text without newline storing the text in place of what
\* was buffered.
WriteNoNewline_replacing(string) ==
    /\ cstdout_buf' = string
    /\ cstdout_buf_null' = FALSE
    /\ cstdout_buf_len' = Len(string)
    /\ BufDone("write", string, 0, 0, 0)
    /\ written' = written \o string
    /\ script' = ScriptAfter(string)
    /\ UNCHANGED <<records, aborted>>

\* The branch for a text without newline (python.c:480-487): realloc and
\* append; the buffer pointer is not NULL afterwards, whatever the text.
WriteNoNewline(string) ==
    /\ cstdout_buf' = SubSeq(cstdout_buf, 1, cstdout_buf_len) \o string
    /\ cstdout_buf_null' = FALSE
    /\ cstdout_buf_len' = cstdout_buf_len + Len(string)
    /\ BufDone("write", string, 0, 0, 0)
    /\ written' = written \o string
    /\ script' = ScriptAfter(string)
    /\ UNCHANGED <<records, aborted>>

cstdout_write(string) ==
    /\ CanBuf
    /\ LET nl == strchr_nl(string)
       IN IF nl # 0 THEN WriteWithNewline(string, nl) ELSE WriteNoNewline(string)
    /\ UNCHANGED <<nflush, notBufVars>>

\* The thread-local buffer of a thread that has written nothing.
----------------------------------------------------------------------------
(* Python runtime host service *)

\* The threads: the control thread, which drives the lifecycle and calls, and
\* a second thread (the console's), which only calls.
Threads == {"main", "other"}

\* enum service_python_op; python__op is zero-initialised, i.e. friends_list.
Ops == {"friends_list", "friends_remove", "interact"}

\* The most registry calls the threads begin.
MaxHostOps == 6

NoJob == [kind |-> "none", fn |-> -1, op |-> "none", code |-> 0]

NoRet == [kind |-> "none", fn |-> -1, proc |-> -1, ret |-> 0]

NoController == [ctl |-> "none", state |-> "none"]

HostCanBegin(t) == ~aborted /\ pc[t] = "idle" /\ nhost < MaxHostOps

\* The registry call returns ret at once, without reaching the service.
ReturnNow(t, kind, fn, ret) ==
    /\ hret' = [hret EXCEPT ![t] = [kind |-> kind, fn |-> fn, proc |-> -1, ret |-> ret]]
    /\ nhost' = nhost + 1
    /\ UNCHANGED <<pc, job>>

\* The registry call goes on into the service at position p.
Enter(t, kind, fn, op, p) ==
    /\ job' = [job EXCEPT ![t] = [kind |-> kind, fn |-> fn, op |-> op, code |-> 0]]
    /\ pc' = [pc EXCEPT ![t] = p]
    /\ nhost' = nhost + 1
    /\ UNCHANGED hret

\* The callback or procedure returns code and the registry call returns ret.
Return(t, code, ret) ==
    /\ hret' = [hret EXCEPT ![t] = [kind |-> job[t].kind, fn |-> job[t].fn,
                                   proc |-> code, ret |-> ret]]
    /\ job' = [job EXCEPT ![t] = NoJob]
    /\ pc' = [pc EXCEPT ![t] = "idle"]
    /\ UNCHANGED nhost

Goto(t, p) == pc' = [pc EXCEPT ![t] = p]

\* service_load and on_load up to Py_Initialize, which leaves the calling
\* thread inside the interpreter with the thread state it created.
main_service_load ==
    /\ HostCanBegin("main")
    /\ IF svc_state # "NULL"
         THEN /\ ReturnNow("main", "load", -1, 1)
              /\ UNCHANGED <<svc_state, svc_started, py, gil, tstate_current>>
         ELSE /\ svc_state' = "LIVE"
              /\ svc_started' = 0
              /\ py' = "up"
              /\ gil' = "main"
              /\ tstate_current' = "TS"
              /\ Enter("main", "load", -1, "none", "release")
    /\ UNCHANGED <<aborted, python__thread_state, python__op, python__op_selected,
                   ns_op, notHostVars>>

\* service_start up to the call of on_start: the started flag is set first.
main_service_start ==
    /\ HostCanBegin("main")
    /\ IF svc_state = "NULL"
         THEN /\ ReturnNow("main", "start", -1, 1)
              /\ UNCHANGED svc_started
         ELSE \E s \in ReadStarted :
              IF s # 0
                THEN /\ ReturnNow("main", "start", -1, 1)
                     /\ UNCHANGED svc_started
                ELSE /\ svc_started' = 1
                     /\ Enter("main", "start", -1, "none", "acquire")
    /\ UNCHANGED <<svc_state, aborted, python__thread_state, gil, tstate_current, py,
                   python__op, python__op_selected, ns_op, notHostVars>>

\* service_stop up to the call of on_stop; the flag is cleared after it.
main_service_stop ==
    /\ HostCanBegin("main")
    /\ IF svc_state = "NULL"
         THEN ReturnNow("main", "stop", -1, 1)
         ELSE \E s \in ReadStarted :
              IF s = 0
                THEN ReturnNow("main", "stop", -1, 1)
                ELSE Enter("main", "stop", -1, "none", "acquire")
    /\ UNCHANGED <<svc_state, svc_started, aborted, python__thread_state, gil,
                   tstate_current, py, python__op, python__op_selected, ns_op,
                   notHostVars>>

\* service_unload up to the call of on_unload.
main_service_unload ==
    /\ HostCanBegin("main")
    /\ IF svc_state = "NULL"
         THEN ReturnNow("main", "unload", -1, 1)
         ELSE Enter("main", "unload", -1, "none", "acquire")
    /\ UNCHANGED <<svc_state, svc_started, aborted, python__thread_state, gil,
                   tstate_current, py, python__op, python__op_selected, ns_op,
                   notHostVars>>

\* service_call entering the procedure without its PyEval_RestoreThread.
thread_service_call_unbracketed(t, fn) ==
    /\ HostCanBegin(t)
    /\ IF svc_state = "NULL"
         THEN /\ ReturnNow(t, "call", fn, 1)
              /\ UNCHANGED aborted
         ELSE \E s \in ReadStarted :
              CASE s = 0 ->
                     /\ ReturnNow(t, "call", fn, 1)
                     /\ UNCHANGED aborted
                [] s # 0 /\ proc(fn) = "NULL" ->
                     /\ aborted' = TRUE
                     /\ UNCHANGED <<pc, job, hret, nhost>>
                [] s # 0 /\ proc(fn) = "python__proc_op_exec" ->
                     /\ \E op \in Ops : Enter(t, "op_exec", fn, op, "op_exec_check")
                     /\ UNCHANGED aborted
                [] OTHER ->
                     /\ Enter(t, "fwd", fn, "none", "run")
                     /\ UNCHANGED aborted
    /\ UNCHANGED <<svc_state, svc_started, python__thread_state, gil, tstate_current,
                   py, python__op, python__op_selected, ns_op, notHostVars>>

\* service_call up to the first statement of the procedure it resolves.
thread_service_call(t, fn) ==
    /\ HostCanBegin(t)
    /\ IF svc_state = "NULL"
         THEN /\ ReturnNow(t, "call", fn, 1)
              /\ UNCHANGED aborted
         ELSE \E s \in ReadStarted :
              CASE s = 0 ->
                     /\ ReturnNow(t, "call", fn, 1)
                     /\ UNCHANGED aborted
                [] s # 0 /\ proc(fn) = "NULL" ->
                     \* the call through a NULL function pointer
                     /\ aborted' = TRUE
                     /\ UNCHANGED <<pc, job, hret, nhost>>
                [] s # 0 /\ proc(fn) = "python__proc_op_exec" ->
                     /\ \E op \in Ops : Enter(t, "op_exec", fn, op, "op_exec_check")
                     /\ UNCHANGED aborted
                [] OTHER ->
                     /\ Enter(t, "fwd", fn, "none", "acquire")
                     /\ UNCHANGED aborted
    /\ UNCHANGED <<svc_state, svc_started, python__thread_state, gil, tstate_current,
                   py, python__op, python__op_selected, ns_op, notHostVars>>

\* The test of python__op_selected replacing the recorded selection with
\* the requested operation when one is already selected.
python__proc_op_exec_test_override(t) ==
    /\ ~aborted /\ pc[t] = "op_exec_check"
    /\ IF python__op_selected # 0
         THEN /\ python__op' = job[t].op
              /\ ns_op' = NoController
              /\ Return(t, 1, 0)
         ELSE /\ Goto(t, "op_exec_select")
              /\ UNCHANGED <<job, hret, nhost, python__op, ns_op>>
    /\ UNCHANGED <<svc_state, svc_started, aborted, python__thread_state, gil,
                   tstate_current, py, python__op_selected, notHostVars>>

\* python__proc_op_exec: the test of python__op_selected (python.c:1232).
python__proc_op_exec_test(t) ==
    /\ ~aborted /\ pc[t] = "op_exec_check"
    /\ IF python__op_selected # 0
         THEN Return(t, 1, 0)
         ELSE Goto(t, "op_exec_select") /\ UNCHANGED <<job, hret, nhost>>
    /\ UNCHANGED <<svc_state, svc_started, aborted, python__thread_state, gil,
                   tstate_current, py, python__op, python__op_selected, ns_op,
                   notHostVars>>

\* python__proc_op_exec: the selection is recorded (python.c:1238-1239).
python__proc_op_exec_select(t) ==
    /\ ~aborted /\ pc[t] = "op_exec_select"
    /\ python__op' = job[t].op
    /\ python__op_selected' = 1
    /\ Goto(t, "acquire")
    /\ UNCHANGED <<job, hret, nhost, svc_state, svc_started, aborted,
                   python__thread_state, gil, tstate_current, py, ns_op, notHostVars>>

\* PyEval_RestoreThread(python__thread_state) as thread t calls it: a fatal
\* error for a NULL thread state; with the lock already held by t it waits
\* for itself for ever; it waits while another thread holds the lock; a
\* thread state freed by Py_FinalizeEx makes the call crash or hang.
PyEval_RestoreThread(t) ==
    /\ ~aborted /\ pc[t] = "acquire"
    /\ CASE python__thread_state[t] = "NULL" ->
              /\ aborted' = TRUE
              /\ UNCHANGED <<pc, gil, tstate_current>>
         [] python__thread_state[t] # "NULL" /\ py = "finalized" ->
              \/ /\ aborted' = TRUE
                 /\ UNCHANGED <<pc, gil, tstate_current>>
              \/ /\ Goto(t, "blocked")
                 /\ UNCHANGED <<aborted, gil, tstate_current>>
         [] python__thread_state[t] # "NULL" /\ py # "finalized" /\ gil = t ->
              /\ Goto(t, "blocked")
              /\ UNCHANGED <<aborted, gil, tstate_current>>
         [] python__thread_state[t] # "NULL" /\ py # "finalized" /\ gil = "none" ->
              /\ gil' = t
              /\ tstate_current' = python__thread_state[t]
              /\ Goto(t, "run")
              /\ UNCHANGED aborted
         [] OTHER -> FALSE
    /\ UNCHANGED <<job, hret, nhost, svc_state, svc_started, python__thread_state, py,
                   python__op, python__op_selected, ns_op, notHostVars>>

\* on_start with failure returns that skip PyEval_SaveThread.
on_start_unparked(t) ==
    /\ ~aborted /\ pc[t] = "run" /\ job[t].kind = "start"
    /\ \/ /\ job' = [job EXCEPT ![t].code = 0]
          /\ Goto(t, "release")
          /\ UNCHANGED hret
       \/ Return(t, 1, 0)
    /\ UNCHANGED <<nhost, svc_state, svc_started, aborted, python__thread_state,
                   gil, tstate_current, py, python__op, python__op_selected, ns_op,
                   notHostVars>>

\* on_start between its PyEval_RestoreThread and its PyEval_SaveThread: every
\* path, failing or not, goes on to PyEval_SaveThread.
on_start(t) ==
    /\ ~aborted /\ pc[t] = "run" /\ job[t].kind = "start"
    /\ \E code \in {0, 1} : job' = [job EXCEPT ![t].code = code]
    /\ Goto(t, "release")
    /\ UNCHANGED <<hret, nhost, svc_state, svc_started, aborted, python__thread_state,
                   gil, tstate_current, py, python__op, python__op_selected, ns_op,
                   notHostVars>>

\* What the stop snippet leaves in the namespace: op.stop() is called on the
\* bound controller (a KeyError without one), the binding stays.
AfterStopSnippet ==
    IF ns_op.ctl = "none" THEN ns_op ELSE [ns_op EXCEPT !.state = "stopped"]

\* on_stop without the clearing of the selection.
on_stop_keeping(t) ==
    /\ ~aborted /\ pc[t] = "run" /\ job[t].kind = "stop"
    /\ IF python__op_selected # 0
         THEN /\ ns_op' = AfterStopSnippet
              /\ job' = [job EXCEPT ![t].op = python__op]
         ELSE UNCHANGED <<ns_op, job>>
    /\ Goto(t, "release")
    /\ UNCHANGED <<hret, nhost, svc_state, svc_started, aborted, python__op,
                   python__op_selected, python__thread_state, gil, tstate_current,
                   py, notHostVars>>

\* on_stop between its PyEval_RestoreThread and its PyEval_SaveThread: the
\* switch on python__op runs the stop function of the selected operation
\* (recorded in the job's op field), then the selection is cleared.
on_stop(t) ==
    /\ ~aborted /\ pc[t] = "run" /\ job[t].kind = "stop"
    /\ IF python__op_selected # 0
         THEN /\ ns_op' = AfterStopSnippet
              /\ job' = [job EXCEPT ![t].op = python__op]
              /\ python__op' = "friends_list"
              /\ python__op_selected' = 0
         ELSE UNCHANGED <<ns_op, job, python__op, python__op_selected>>
    /\ Goto(t, "release")
    /\ UNCHANGED <<hret, nhost, svc_state, svc_started, aborted,
                   python__thread_state, gil, tstate_current, py, notHostVars>>

\* on_unload of a service_unload that stops a started service first: the
\* selection is cleared and the started flag taken back as on_stop and
\* service_stop do.
on_unload_stopping(t) ==
    /\ ~aborted /\ pc[t] = "run" /\ job[t].kind = "unload"
    /\ py' = "finalized"
    /\ gil' = "none"
    /\ tstate_current' = "NULL"
    /\ ns_op' = NoController
    /\ svc_state' = "FREED"
    /\ svc_started' = 0
    /\ python__op' = "friends_list"
    /\ python__op_selected' = 0
    /\ Return(t, 0, 0)
    /\ UNCHANGED <<aborted, python__thread_state, notHostVars>>

\* on_unload after its PyEval_RestoreThread: Py_FinalizeEx, and then
\* service_unload frees the state object without clearing svc->state.
on_unload(t) ==
    /\ ~aborted /\ pc[t] = "run" /\ job[t].kind = "unload"
    /\ py' = "finalized"
    /\ gil' = "none"
    /\ tstate_current' = "NULL"
    /\ ns_op' = NoController
    /\ svc_state' = "FREED"
    /\ Return(t, 0, 0)
    /\ UNCHANGED <<svc_started, aborted, python__thread_state, python__op,
                   python__op_selected, notHostVars>>

\* The exec snippet of an operation: the import or the constructor raises
\* (nothing is bound), start() raises (the controller is bound), or all of
\* it runs. The exception is logged and cleared by python__handle_exception.
AfterExecSnippet(op) ==
    {ns_op, [ctl |-> op, state |-> "failed"], [ctl |-> op, state |-> "started"]}

\* python__proc_op_exec between PyEval_RestoreThread and PyEval_SaveThread.
python__proc_op_exec_run(t) ==
    /\ ~aborted /\ pc[t] = "run" /\ job[t].kind = "op_exec"
    /\ \E n \in AfterExecSnippet(job[t].op) : ns_op' = n
    /\ Goto(t, "release")
    /\ UNCHANGED <<job, hret, nhost, svc_state, svc_started, aborted,
                   python__thread_state, gil, tstate_current, py, python__op,
                   python__op_selected, notHostVars>>

\* Whether the forwarding snippet raises: always without a bound controller
\* (globals()['op'] is a KeyError), otherwise as the script decides.
SnippetRaises == IF ns_op.ctl = "none" THEN {TRUE} ELSE {TRUE, FALSE}

\* A forwarding procedure whose nonzero code service_call hands on to its
\* caller.
python__proc_forward_propagated(t) ==
    /\ ~aborted /\ pc[t] = "run" /\ job[t].kind = "fwd"
    /\ \E raised \in SnippetRaises :
          IF raised
            THEN Return(t, 1, 1)
            ELSE Goto(t, "release") /\ UNCHANGED <<job, hret, nhost>>
    /\ UNCHANGED <<svc_state, svc_started, aborted, python__thread_state, gil,
                   tstate_current, py, python__op, python__op_selected, ns_op,
                   notHostVars>>

\* A forwarding procedure (python__proc_auto_enable and the six like it)
\* after its PyEval_RestoreThread: when PyRun_String fails it returns 1 at
\* once, without PyEval_SaveThread.
python__proc_forward(t) ==
    /\ ~aborted /\ pc[t] = "run" /\ job[t].kind = "fwd"
    /\ \E raised \in SnippetRaises :
          IF raised
            THEN Return(t, 1, 0)
            ELSE Goto(t, "release") /\ UNCHANGED <<job, hret, nhost>>
    /\ UNCHANGED <<svc_state, svc_started, aborted, python__thread_state, gil,
                   tstate_current, py, python__op, python__op_selected, ns_op,
                   notHostVars>>

\* python__thread_state = PyEval_SaveThread(), and the return that follows
\* it; service_stop clears the started flag after on_stop.
PyEval_SaveThread(t) ==
    /\ ~aborted /\ pc[t] = "release"
    /\ gil' = "none"
    /\ python__thread_state' = [python__thread_state EXCEPT ![t] = tstate_current]
    /\ tstate_current' = "NULL"
    /\ svc_started' = IF job[t].kind = "stop" THEN 0 ELSE svc_started
    /\ Return(t, job[t].code, 0)
    /\ UNCHANGED <<svc_state, aborted, py, python__op, python__op_selected, ns_op,
                   notHostVars>>

\* The state before main's first statement.
HostFresh ==
    /\ pc = [t \in Threads |-> "idle"]
    /\ job = [t \in Threads |-> NoJob]
    /\ python__thread_state = [t \in Threads |-> "NULL"]
    /\ gil = "none"
    /\ tstate_current = "NULL"
    /\ py = "down"
    /\ python__op = "friends_list"
    /\ python__op_selected = 0
    /\ ns_op = NoController
    /\ hret = [t \in Threads |-> NoRet]
    /\ nhost = 0

----------------------------------------------------------------------------
(* Console service *)

\* The most console steps explored.
MaxConOps == 7

\* The lines linenoise returns to the input thread.
Lines == {"stop", "stopx", "go", ""}

\* enum service_console_fn, and one ordinal past it.
ConsoleOrdinals == 0..2

\* proc(fn) of the console service.
console_proc(fn) ==
    CASE fn = 0 -> "console__proc_interrupted"
      [] fn = 1 -> "console__proc_solicit"
      [] OTHER  -> "NULL"

NoConOp == [op |-> "none", arg |-> "", ret |-> 0]

CanCon == ~aborted /\ ncon < MaxConOps

\* The caller of the registry is between two calls.
ConIdle == CanCon /\ cpc = "idle"

ConDone(op, arg, ret) ==
    /\ conop' = [op |-> op, arg |-> arg, ret |-> ret]
    /\ ncon' = ncon + 1

\* service_load(SERVICE_CONSOLE) with an on_load that leaves the disposition
\* of SIGINT alone.
console_service_load_no_signal ==
    /\ ConIdle
    /\ IF svc_state # "NULL"
         THEN /\ ConDone("load", "", 1)
              /\ UNCHANGED <<svc_state, svc_started>>
         ELSE /\ svc_state' = "LIVE"
              /\ svc_started' = 0
              /\ ConDone("load", "", 0)
    /\ UNCHANGED <<aborted, sigint_handler, console__interrupted, input_threads, cpc,
                   out_interrupted, stop_seen, sig_seen, unreported, notConVars>>

\* service_load(SERVICE_CONSOLE): on_load installs the SIGINT handler.
console_service_load ==
    /\ ConIdle
    /\ IF svc_state # "NULL"
         THEN /\ ConDone("load", "", 1)
              /\ UNCHANGED <<svc_state, svc_started, sigint_handler>>
         ELSE /\ svc_state' = "LIVE"
              /\ svc_started' = 0
              /\ sigint_handler' = "console__sigint"
              /\ ConDone("load", "", 0)
    /\ UNCHANGED <<aborted, console__interrupted, input_threads, cpc, out_interrupted,
                   stop_seen, sig_seen, unreported, notConVars>>

\* service_unload(SERVICE_CONSOLE): on_unload restores SIG_DFL; the state
\* object is freed and svc->state keeps pointing at it; the input thread
\* is left alone.
console_service_unload ==
    /\ ConIdle
    /\ CASE svc_state = "NULL" ->
              /\ ConDone("unload", "", 1)
              /\ UNCHANGED <<svc_state, sigint_handler, aborted>>
         [] svc_state = "LIVE" ->
              /\ svc_state' = "FREED"
              /\ sigint_handler' = "SIG_DFL"
              /\ ConDone("unload", "", 0)
              /\ UNCHANGED aborted
         [] svc_state = "FREED" ->
              \* second free of the same object: detected (abort) or not
              /\ sigint_handler' = "SIG_DFL"
              /\ \/ ConDone("unload", "", 0) /\ UNCHANGED aborted
                 \/ aborted' = TRUE /\ UNCHANGED <<conop, ncon>>
              /\ UNCHANGED svc_state
    /\ UNCHANGED <<svc_started, console__interrupted, input_threads, cpc,
                   out_interrupted, stop_seen, sig_seen, unreported, notConVars>>

\* service_start(SERVICE_CONSOLE): on_start spawns the input thread.
console_service_start ==
    /\ ConIdle
    /\ IF svc_state = "NULL"
         THEN /\ ConDone("start", "", 1)
              /\ UNCHANGED <<svc_started, input_threads>>
         ELSE \E s \in ReadStarted :
              IF s # 0
                THEN /\ ConDone("start", "", 1)
                     /\ UNCHANGED <<svc_started, input_threads>>
                ELSE /\ svc_started' = 1
                     /\ input_threads' = input_threads + 1
                     /\ ConDone("start", "", 0)
    /\ UNCHANGED <<svc_state, aborted, sigint_handler, console__interrupted, cpc,
                   out_interrupted, stop_seen, sig_seen, unreported, notConVars>>

\* service_stop(SERVICE_CONSOLE): on_stop cancels and joins the thread in
\* console__thread; with no thread ever created the handle is zero and
\* pthread_cancel crashes or fails.
console_service_stop ==
    /\ ConIdle
    /\ IF svc_state = "NULL"
         THEN /\ ConDone("stop", "", 1)
              /\ UNCHANGED <<svc_started, input_threads, aborted>>
         ELSE \E s \in ReadStarted :
              CASE s = 0 ->
                     /\ ConDone("stop", "", 1)
                     /\ UNCHANGED <<svc_started, input_threads, aborted>>
                [] s # 0 /\ input_threads > 0 ->
                     /\ svc_started' = 0
                     /\ input_threads' = input_threads - 1
                     /\ ConDone("stop", "", 0)
                     /\ UNCHANGED aborted
                [] OTHER ->
                     \/ /\ svc_started' = 0
                        /\ ConDone("stop", "", 0)
                        /\ UNCHANGED <<input_threads, aborted>>
                     \/ /\ aborted' = TRUE
                        /\ UNCHANGED <<svc_started, input_threads, conop, ncon>>
    /\ UNCHANGED <<svc_state, sigint_handler, console__interrupted, cpc,
                   out_interrupted, stop_seen, sig_seen, unreported, notConVars>>

\* One turn of the input thread's loop comparing only the first four
\* characters of the line with "stop".
console__thread_main_prefix(line) ==
    /\ CanCon
    /\ input_threads > 0
    /\ IF line \in {"stop", "stopx"}
         THEN /\ console__interrupted' = 1
              /\ stop_seen' = TRUE
              /\ unreported' = ~(cpc = "clear" /\ out_interrupted = 1)
         ELSE UNCHANGED <<console__interrupted, stop_seen, unreported>>
    /\ ConDone("line", line, 0)
    /\ UNCHANGED <<svc_state, svc_started, aborted, sigint_handler, input_threads,
                   cpc, out_interrupted, sig_seen, notConVars>>

\* linenoise returns NULL (end of input, or Ctrl-C at the prompt) and the
\* loop reads line[0] through it.
console__thread_main_eof ==
    /\ CanCon
    /\ input_threads > 0
    /\ aborted' = TRUE
    /\ UNCHANGED <<svc_state, svc_started, conVars, notConVars>>

\* One turn of console__thread_main's loop on the line linenoise returned:
\* the empty line is skipped, any other goes to console__handle_input,
\* which sets the flag for the literal "stop".
console__thread_main(line) ==
    /\ CanCon
    /\ input_threads > 0
    /\ IF line = "stop"
         THEN /\ console__interrupted' = 1
              /\ stop_seen' = TRUE
              /\ unreported' = ~(cpc = "clear" /\ out_interrupted = 1)
         ELSE UNCHANGED <<console__interrupted, stop_seen, unreported>>
    /\ ConDone("line", line, 0)
    /\ UNCHANGED <<svc_state, svc_started, aborted, sigint_handler, input_threads,
                   cpc, out_interrupted, sig_seen, notConVars>>

\* SIGINT is delivered: console__sigint sets the flag, the default
\* disposition terminates the process.
console__sigint ==
    /\ CanCon
    /\ IF sigint_handler = "console__sigint"
         THEN /\ console__interrupted' = 1
              /\ sig_seen' = TRUE
              /\ unreported' = ~(cpc = "clear" /\ out_interrupted = 1)
              /\ ConDone("sigint", "", 0)
              /\ UNCHANGED aborted
         ELSE /\ aborted' = TRUE
              /\ UNCHANGED <<console__interrupted, sig_seen, unreported, conop, ncon>>
    /\ UNCHANGED <<svc_state, svc_started, sigint_handler, input_threads, cpc,
                   out_interrupted, stop_seen, notConVars>>

\* service_call(SERVICE_CONSOLE, service_console_fn_interrupted, NULL, &out)
\* up to the read of the flag in console__proc_interrupted (console.c:88).
console__proc_interrupted_read ==
    /\ ConIdle
    /\ IF svc_state = "NULL"
         THEN /\ ConDone("interrupted", "", 1)
              /\ UNCHANGED <<cpc, out_interrupted, stop_seen, sig_seen, unreported>>
         ELSE \E s \in ReadStarted :
              IF s = 0
                THEN /\ ConDone("interrupted", "", 1)
                     /\ UNCHANGED <<cpc, out_interrupted, stop_seen, sig_seen,
                                    unreported>>
                ELSE /\ out_interrupted' = console__interrupted
                     /\ cpc' = "clear"
                     /\ stop_seen' = FALSE
                     /\ sig_seen' = FALSE
                     /\ unreported' = IF console__interrupted = 1
                                        THEN FALSE ELSE unreported
                     /\ ConDone("read", "", 0)
    /\ UNCHANGED <<svc_state, svc_started, aborted, sigint_handler,
                   console__interrupted, input_threads, notConVars>>

\* console__proc_interrupted: the flag is cleared (console.c:89) and the
\* procedure and service_call return.
console__proc_interrupted_clear ==
    /\ CanCon
    /\ cpc = "clear"
    /\ console__interrupted' = 0
    /\ cpc' = "idle"
    /\ ConDone("interrupted", "", 0)
    /\ UNCHANGED <<svc_state, svc_started, aborted, sigint_handler, input_threads,
                   out_interrupted, stop_seen, sig_seen, unreported, notConVars>>

\* service_call(SERVICE_CONSOLE, fn, ...) for the other ordinals: solicit
\* does nothing, an ordinal without procedure is a call through NULL.
console_service_call(fn) ==
    /\ ConIdle
    /\ IF svc_state = "NULL"
         THEN ConDone("call", "", 1) /\ UNCHANGED aborted
         ELSE \E s \in ReadStarted :
              CASE s = 0 -> ConDone("call", "", 1) /\ UNCHANGED aborted
                [] s # 0 /\ console_proc(fn) = "NULL" ->
                     aborted' = TRUE /\ UNCHANGED <<conop, ncon>>
                [] OTHER -> ConDone("call", "", 0) /\ UNCHANGED aborted
    /\ UNCHANGED <<svc_state, svc_started, sigint_handler, console__interrupted,
                   input_threads, cpc, out_interrupted, stop_seen, sig_seen,
                   unreported, notConVars>>

\* The console before main's first statement.
ConFresh ==
    /\ sigint_handler = "SIG_DFL"
    /\ console__interrupted = 0
    /\ input_threads = 0
    /\ cpc = "idle"
    /\ out_interrupted = 0
    /\ stop_seen = FALSE
    /\ sig_seen = FALSE
    /\ unreported = FALSE
    /\ conop = NoConOp
    /\ ncon = 0

----------------------------------------------------------------------------
(* The cstdout and cstderr sinks of every thread *)

\* The two sinks: sys.stdout is cstdout, sys.stderr is cstderr.
Streams == {"stdout", "stderr"}

\* The most writes and flushes on the sinks explored.
MaxSinkOps == 4

\* The texts written to the sinks: one for each path through the write (no
\* newline; a newline with nothing after it; text after the newline and no
\* further newline; a further line and nothing after it, which leaves an
\* allocated empty buffer).
SinkTexts == { <<"x">>, <<NL>>, <<"x", NL, "y">>, <<NL, "y", NL>> }

\* A buffer nothing was written to: the pointer is NULL, the length 0.
NoSinkBuf == [buf |-> <<>>, null |-> TRUE, len |-> 0]

NoSinkOp == [op |-> "none", t |-> "none", x |-> "none", text |-> <<>>]

\* LOGI for cstdout, LOGE for cstderr.
LogLevel(x) == IF x = "stdout" THEN "info" ELSE "error"

\* What cstdout_write of string does with buffer b (python.c:425-491): the
\* buffer afterwards, the texts logged, and whether the process died in the
\* overrun of the concat buffer.
write_outcomes(b, string) ==
    LET string_len == Len(string)
        nl == strchr_nl(string)
        first == SubSeq(SubSeq(b.buf, 1, b.len) \o string, 1, b.len + (nl - 1))
        loop == LogLines(SubSeq(string, nl + 1, string_len))
    IN IF nl = 0
         THEN {[b |-> [buf |-> SubSeq(b.buf, 1, b.len) \o string, null |-> FALSE,
                       len |-> b.len + string_len],
                lines |-> <<>>, dead |-> FALSE]}
         ELSE {[b |-> IF nl # string_len
                        THEN [buf |-> loop.tail, null |-> FALSE, len |-> Len(loop.tail)]
                        ELSE NoSinkBuf,
                lines |-> IF nl # string_len THEN <<first>> \o loop.lines
                                             ELSE <<first>>,
                dead |-> FALSE]}
              \cup (IF b.len + string_len > b.len + (nl - 1) + 1
                      THEN {[b |-> b, lines |-> <<>>, dead |-> TRUE],
                            [b |-> NoSinkBuf, lines |-> <<first>>, dead |-> TRUE]}
                      ELSE {})

\* What cstdout_flush does with buffer b (python.c:409-423).
flush_outcome(b) ==
    IF ~b.null
      THEN [b |-> NoSinkBuf, lines |-> <<b.buf>>, dead |-> FALSE]
      ELSE [b |-> b, lines |-> <<>>, dead |-> FALSE]

\* The loop of cstderr_write over the text after the first newline
\* (python.c:581-592): each further line ending in a newline is logged, and
\* tail is the text from line_begin on once strchr finds no newline.
RECURSIVE cstderr_lines(_)
cstderr_lines(rest) ==
    IF strchr_nl(rest) = 0
      THEN [lines |-> <<>>, tail |-> rest]
      ELSE LET line_end == strchr_nl(rest)
               more == cstderr_lines(SubSeq(rest, line_end + 1, Len(rest)))
           IN [lines |-> <<SubSeq(rest, 1, line_end - 1)>> \o more.lines,
               tail |-> more.tail]

\* cstderr_write logging a text without newline at once instead of keeping
\* it for the line it belongs to.
cstderr_write_outcomes_unbuffered(b, string) ==
    IF strchr_nl(string) = 0
      THEN {[b |-> NoSinkBuf, lines |-> <<SubSeq(b.buf, 1, b.len) \o string>>,
             dead |-> FALSE]}
      ELSE write_outcomes(b, string)

\* What cstderr_write of string does with buffer b (python.c:547-613).
cstderr_write_outcomes(b, string) ==
    LET string_len == Len(string)
        nl == strchr_nl(string)
        buf_len == b.len + (nl - 1)
        buf == SubSeq(SubSeq(b.buf, 1, b.len) \o string, 1, buf_len)
        remains == nl # string_len
        loop == cstderr_lines(SubSeq(string, nl + 1, string_len))
        overrun == b.len + string_len > buf_len + 1
    IN IF nl # 0
         THEN {[b |-> IF remains
                        THEN [buf |-> loop.tail, null |-> FALSE, len |-> Len(loop.tail)]
                        ELSE NoSinkBuf,
                lines |-> IF remains THEN <<buf>> \o loop.lines ELSE <<buf>>,
                dead |-> FALSE]}
              \cup { o \in {[b |-> b, lines |-> <<>>, dead |-> TRUE],
                            [b |-> NoSinkBuf, lines |-> <<buf>>, dead |-> TRUE]} :
                        overrun }
         ELSE {[b |-> [buf |-> SubSeq(b.buf, 1, b.len) \o string, null |-> FALSE,
                       len |-> b.len + string_len],
                lines |-> <<>>, dead |-> FALSE]}

\* What cstderr_flush does with buffer b (python.c:531-545).
cstderr_flush_outcome(b) ==
    IF b.null
      THEN [b |-> b, lines |-> <<>>, dead |-> FALSE]
      ELSE [b |-> NoSinkBuf, lines |-> <<b.buf>>, dead |-> FALSE]

\* sys.stdout is the cstdout module and sys.stderr the cstderr module
\* (python.c:1605, 1615): the write and the flush a stream's name resolves to.
sys_write(x, b, string) ==
    IF x = "stderr" THEN cstderr_write_outcomes(b, string) ELSE write_outcomes(b, string)

sys_flush(x, b) ==
    IF x = "stderr" THEN cstderr_flush_outcome(b) ELSE flush_outcome(b)

\* The records of thread t's sink x for the texts lines.
SinkRecords(t, x, lines) ==
    [i \in 1..Len(lines) |-> [level |-> LogLevel(x), t |-> t, text |-> lines[i]]]

CanSink == ~aborted /\ nsink < MaxSinkOps

SinkDone(op, t, x, string, out) ==
    /\ sink_records' = sink_records \o SinkRecords(t, x, out.lines)
    /\ aborted' = out.dead
    /\ sink_hist' = [sink_hist EXCEPT ![<<t, x>>] = Append(@, <<op, string>>)]
    /\ sinkop' = [op |-> op, t |-> t, x |-> x, text |-> string]
    /\ nsink' = nsink + 1
    /\ UNCHANGED notSinkVars

\* Thread t's write to sink x with one buffer per stream for all threads.
thread_write_shared(t, x, string) ==
    /\ CanSink
    /\ \E out \in sys_write(x, sink_buf[<<"main", x>>], string) :
          /\ sink_buf' = [sink_buf EXCEPT ![<<"main", x>>] = out.b]
          /\ SinkDone("write", t, x, string, out)

\* Thread t calls sys.stdout.write or sys.stderr.write: the buffer is the
\* calling thread's copy of the __thread variables of that module.
thread_write(t, x, string) ==
    /\ CanSink
    /\ \E out \in sys_write(x, sink_buf[<<t, x>>], string) :
          /\ sink_buf' = [sink_buf EXCEPT ![<<t, x>>] = out.b]
          /\ SinkDone("write", t, x, string, out)

\* Thread t calls sys.stdout.flush or sys.stderr.flush.
thread_flush(t, x) ==
    /\ CanSink
    /\ LET out == sys_flush(x, sink_buf[<<t, x>>])
       IN /\ sink_buf' = [sink_buf EXCEPT ![<<t, x>>] = out.b]
          /\ SinkDone("flush", t, x, <<>>, out)

\* No thread has written anything.
SinkFresh ==
    /\ sink_buf = [k \in Threads \X Streams |-> NoSinkBuf]
    /\ sink_records = <<>>
    /\ sink_hist = [k \in Threads \X Streams |-> <<>>]
    /\ sinkop = NoSinkOp
    /\ nsink = 0

----------------------------------------------------------------------------
(* Initial states and specifications *)

\* The service before any registry call (the static struct service).
RegFresh ==
    /\ svc_state = "NULL"
    /\ svc_started = 0
    /\ aborted = FALSE
    /\ hist = <<>>
    /\ last = NoCall

\* The thread-local buffer of a thread that has written nothing.
BufFresh ==
    /\ cstdout_buf = <<>>
    /\ cstdout_buf_null = TRUE
    /\ cstdout_buf_len = 0
    /\ records = <<>>
    /\ written = <<>>
    /\ bufop = NoBufOp
    /\ nbufops = 0
    /\ nflush = 0
    /\ script = 0

InitRegistry ==
    /\ RegFresh
    /\ svc_iface \in BOOLEAN
    /\ BufFresh
    /\ HostFresh
    /\ ConFresh
    /\ SinkFresh

NextRegistry ==
    \/ service_load
    \/ service_unload
    \/ service_start
    \/ service_stop
    \/ \E fn \in CallOrdinals : service_call(fn)

SpecRegistry == InitRegistry /\ [][NextRegistry]_vars

InitBuf ==
    /\ BufFresh
    /\ RegFresh
    /\ svc_iface = TRUE
    /\ HostFresh
    /\ ConFresh
    /\ SinkFresh

\* The documented example is written from a fresh buffer, in its order.
NextTexts ==
    Texts \cup (IF script >= 0 /\ script < Len(ExampleWrites) /\ nbufops = script
                  THEN {ExampleWrites[script + 1]}
                  ELSE {})

NextBuf ==
    \/ \E string \in NextTexts : cstdout_write(string)
    \/ cstdout_flush

SpecBuf == InitBuf /\ [][NextBuf]_vars

InitHost ==
    /\ HostFresh
    /\ RegFresh
    /\ svc_iface = TRUE
    /\ BufFresh
    /\ ConFresh
    /\ SinkFresh

NextHost ==
    \/ main_service_load
    \/ main_service_start
    \/ main_service_stop
    \/ main_service_unload
    \/ \E t \in Threads, fn \in Ordinals : thread_service_call(t, fn)
    \/ \E t \in Threads : python__proc_op_exec_test(t)
    \/ \E t \in Threads : python__proc_op_exec_select(t)
    \/ \E t \in Threads : PyEval_RestoreThread(t)
    \/ \E t \in Threads : on_start(t)
    \/ \E t \in Threads : on_stop(t)
    \/ \E t \in Threads : on_unload(t)
    \/ \E t \in Threads : python__proc_op_exec_run(t)
    \/ \E t \in Threads : python__proc_forward(t)
    \/ \E t \in Threads : PyEval_SaveThread(t)

SpecHost == InitHost /\ [][NextHost]_vars

InitConsole ==
    /\ ConFresh
    /\ RegFresh
    /\ svc_iface = TRUE
    /\ BufFresh
    /\ HostFresh
    /\ SinkFresh

NextConsole ==
    \/ console_service_load
    \/ console_service_unload
    \/ console_service_start
    \/ console_service_stop
    \/ \E line \in Lines : console__thread_main(line)
    \/ console__thread_main_eof
    \/ console__sigint
    \/ console__proc_interrupted_read
    \/ console__proc_interrupted_clear
    \/ \E fn \in ConsoleOrdinals \ {0} : console_service_call(fn)

SpecConsole == InitConsole /\ [][NextConsole]_vars

InitSinks ==
    /\ SinkFresh
    /\ RegFresh
    /\ svc_iface = TRUE
    /\ BufFresh
    /\ HostFresh
    /\ ConFresh

NextSinks ==
    \/ \E t \in Threads, x \in Streams, string \in SinkTexts : thread_write(t, x, string)
    \/ \E t \in Threads, x \in Streams : thread_flush(t, x)

SpecSinks == InitSinks /\ [][NextSinks]_vars

----------------------------------------------------------------------------
(* Lifecycle states as the registry tests them *)

\* Loaded: svc->state is not NULL (service.c:22, 48, 73, 105, 134).
Loaded == svc_state # "NULL"

\* Started: the state object is live and its started flag is set.
Started == svc_state = "LIVE" /\ svc_started # 0

Unloaded == ~Loaded

IsLifecycle(e) == e[1] \in {"load", "unload", "start", "stop"}

\* The positions of h holding a successful lifecycle transition.
OkAt(h) == {i \in 1..Len(h) : IsLifecycle(h[i]) /\ h[i][2] = 0}

\* The most recent successful lifecycle transition among the first n calls
\* of the history ("none" when there is none).
LastOk(n) ==
    LET S == {i \in OkAt(hist) : i <= n}
    IN IF S = {} THEN "none"
       ELSE hist[CHOOSE i \in S : \A j \in S : j <= i][1]

\* The call that just returned, or in which the process died.
CallStep(op) ==
    /\ last'.op = op
    /\ \/ Len(hist') = Len(hist) + 1
       \/ aborted' /\ ~aborted

----------------------------------------------------------------------------
(* Claims on the service registry, checked under SpecRegistry *)

\* C1: service_start returns success only if the most recent successful
\* lifecycle transition before it was a load, or a stop that followed a load:
\* a successful load precedes it with no successful unload and no successful
\* un-stopped start in between.
C1_StartOnlyWhenLoaded ==
    \A i \in 1..Len(hist) :
        hist[i] = <<"start", 0>> =>
            /\ LastOk(i - 1) \in {"load", "stop"}
            /\ \E j \in 1..(i - 1) :
                  /\ hist[j] = <<"load", 0>>
                  /\ \A k \in (j + 1)..(i - 1) : hist[k] # <<"unload", 0>>

\* C2: with callbacks that are no-ops, load, start, stop, unload returns
\* success at every step and leaves the service Unloaded, and the following
\* load and start return success again.
RoundTrip == <<"load", "start", "stop", "unload", "load", "start">>

IsRoundTripPrefix(n) ==
    /\ n <= Len(hist)
    /\ n <= Len(RoundTrip)
    /\ \A i \in 1..n : hist[i][1] = RoundTrip[i]

C2_RoundTrip ==
    \A n \in 1..Len(RoundTrip) :
        IsRoundTripPrefix(n) =>
            /\ \A i \in 1..n : hist[i][2] = 0
            /\ (n = 4 /\ Len(hist) = 4) => Unloaded

\* C3: Started implies Loaded, and after a successful unload the service is
\* neither Loaded nor Started.
C3_StartedImpliesLoaded ==
    /\ Started => Loaded
    /\ (Len(hist) > 0 /\ hist[Len(hist)] = <<"unload", 0>>) =>
           ~Loaded /\ ~Started

\* C4: service_call on a service that is loaded but not started (never
\* started, or stopped) returns failure, invokes neither the lookup function
\* nor a procedure, and leaves the lifecycle state unchanged, for every
\* ordinal.
C4_CallNotStarted ==
    [][ (CallStep("call") /\ svc_state = "LIVE" /\ svc_started = 0) =>
            /\ last'.ret = 1
            /\ last'.invoked = <<>>
            /\ ~aborted'
            /\ UNCHANGED <<svc_state, svc_started>> ]_vars

\* A call has just failed on a service that was started and then stopped.
C4_Witness ==
    /\ last.op = "call" /\ last.ret = 1 /\ last.fn = 1
    /\ svc_state = "LIVE" /\ svc_started = 0 /\ svc_iface
    /\ \E i \in 1..Len(hist) : hist[i] = <<"stop", 0>>

----------------------------------------------------------------------------
(* Claims on the output line buffer, checked under SpecBuf *)

\* S split at every newline: the segments between newlines, the last one
\* being what follows the last newline.
RECURSIVE SplitAtNewlines(_)
SplitAtNewlines(S) ==
    IF \A i \in 1..Len(S) : S[i] # NL
      THEN <<S>>
      ELSE LET p == CHOOSE i \in 1..Len(S) :
                        S[i] = NL /\ \A j \in 1..(i - 1) : S[j] # NL
           IN <<SubSeq(S, 1, p - 1)>> \o SplitAtNewlines(SubSeq(S, p + 1, Len(S)))

\* The records the buffer owes for S: the segments of S, without the final
\* empty one when S ends in a newline (and none for an empty S).
ExpectedRecords(S) ==
    LET segs == SplitAtNewlines(S)
    IN IF S = <<>> \/ S[Len(S)] = NL
         THEN SubSeq(segs, 1, Len(segs) - 1)
         ELSE segs

\* Writes to a fresh buffer followed by one flush have just been made.
WritesThenFlush == bufop.op = "flush" /\ nflush = 1 /\ ~aborted

\* C8: for every sequence of writes to a fresh buffer whose concatenation is
\* S, the records emitted by the writes followed by one flush are S split at
\* newlines, the final empty segment suppressed when S ends in a newline.
C8_RecordsAreLines ==
    (WritesThenFlush /\ written # <<>>) => records = ExpectedRecords(written)

\* The four writes of the example and then the flush have been made.
ExampleDone ==
    script = Len(ExampleWrites) /\ WritesThenFlush /\ nbufops = script + 1

\* C9 as stated: the writes "abc", "def\n", "ghi\nj", "kl\n" and a flush
\* emit exactly the records "abcdefghi" and "jkl", and the flush emits nothing.
C9_AsStated ==
    ExampleDone =>
        /\ records = << <<"a", "b", "c", "d", "e", "f", "g", "h", "i">>,
                        <<"j", "k", "l">> >>
        /\ bufop.emitted = 0

ExampleRecords ==
    << <<"a", "b", "c", "d", "e", "f">>, <<"g", "h", "i">>, <<"j", "k", "l">> >>

\* The example is under way: only its writes were made, or the process died
\* in one of them.
InExample ==
    /\ nflush = 0
    /\ script >= 1
    /\ nbufops = script
    /\ bufop.text \in {ExampleWrites[i] : i \in 1..Len(ExampleWrites)}

\* C9, amended: the writes "abc", "def\n", "ghi\nj", "kl\n" and a flush emit
\* exactly the records "abcdef", "ghi" and "jkl", in that order, and the flush
\* emits nothing; while the example is under way, also when the process dies
\* in a write, the records emitted are the first ones of these three.
C9_ExampleRecords ==
    /\ ExampleDone => records = ExampleRecords /\ bufop.emitted = 0
    /\ InExample =>
          /\ Len(records) <= Len(ExampleRecords)
          /\ records = SubSeq(ExampleRecords, 1, Len(records))

C9_Witness == ExampleDone /\ records = ExampleRecords /\ cstdout_buf_null

\* A write step of a newline-free text followed by exactly one newline, made
\* on an empty buffer.
LineWriteStep ==
    /\ nbufops' = nbufops + 1
    /\ bufop'.op = "write"
    /\ Len(bufop'.text) >= 1
    /\ strchr_nl(bufop'.text) = Len(bufop'.text)
    /\ cstdout_buf_len = 0

\* C10: one write of a newline-free text followed by exactly one newline to
\* an empty buffer emits exactly one record, the text without the newline,
\* and leaves the buffer empty, so that a following flush emits nothing.
C10_SingleLine ==
    /\ [][ LineWriteStep =>
              /\ records' = Append(records, SubSeq(bufop'.text, 1, Len(bufop'.text) - 1))
              /\ bufop'.emitted = 1
              /\ cstdout_buf_null' /\ cstdout_buf_len' = 0 /\ cstdout_buf' = <<>> ]_vars
    /\ [][ (bufop.op = "write" /\ Len(bufop.text) >= 1
            /\ strchr_nl(bufop.text) = Len(bufop.text)
            /\ bufop'.op = "flush" /\ nbufops' = nbufops + 1) =>
              bufop'.emitted = 0 /\ records' = records ]_vars

\* "x\n" was written to a fresh buffer and then flushed.
C10_Witness ==
    /\ written = <<"x", NL>>
    /\ records = << <<"x">> >>
    /\ bufop.op = "flush" /\ bufop.emitted = 0 /\ nbufops = 2


----------------------------------------------------------------------------
(* Claims on the runtime host service, checked under SpecHost *)

\* Thread t is executing interpreter code: it is between a
\* PyEval_RestoreThread (or Py_Initialize) and the matching PyEval_SaveThread.
InInterpreter(t) == pc[t] \in {"run", "release"}

\* C5: for every interleaving of the threads that call into the runtime host
\* service, at most one thread is executing interpreter code at any instant.
C5_OneThreadInInterpreter ==
    Cardinality({t \in Threads : InInterpreter(t)}) <= 1

\* The control thread is inside the interpreter while the second thread is
\* at the PyEval_RestoreThread of a dispatched procedure.
C5_Witness ==
    /\ InInterpreter("main")
    /\ pc["other"] = "acquire"
    /\ job["other"].kind = "fwd"

\* C6: every dispatched procedure has parked the execution context token
\* again on every return path, including the paths where the snippet raises:
\* a thread whose call has returned does not hold the token.
C6_TokenParkedOnReturn ==
    \A t \in Threads :
        (pc[t] = "idle" /\ hret[t].kind \in {"op_exec", "fwd"}) => gil # t

\* A token is parked: some thread saved it and no thread is in the runtime.
TokenParked ==
    /\ py = "up"
    /\ gil = "none"
    /\ \E u \in Threads : python__thread_state[u] = "TS"

\* C7: the parked token lives in one process-wide slot: a dispatched
\* procedure on any thread acquires the token another thread parked, not an
\* empty slot.
C7_ProcessWideSlot ==
    \A t \in Threads :
        (pc[t] = "acquire" /\ job[t].kind \in {"op_exec", "fwd"} /\ TokenParked) =>
            python__thread_state[t] = "TS"

----------------------------------------------------------------------------
(* Further claims on the output line buffer, checked under SpecBuf *)

\* The text that follows the last newline of S (all of S without one).
TextAfterLastNewline(S) ==
    LET segs == SplitAtNewlines(S) IN segs[Len(segs)]

\* A write or a flush that the process survives.
BufStep == nbufops' = nbufops + 1 /\ ~aborted'

\* C11: after any sequence of writes and flushes the buffer holds no newline
\* character; a write leaves in it the text that follows the last newline of
\* what was buffered with the written text appended, and a flush leaves it
\* empty.
C11_NoNewlineBuffered ==
    /\ [](~aborted => /\ \A i \in 1..Len(cstdout_buf) : cstdout_buf[i] # NL
                      /\ cstdout_buf_len = Len(cstdout_buf))
    /\ [][ BufStep =>
              IF bufop'.op = "write"
                THEN cstdout_buf' = TextAfterLastNewline(cstdout_buf \o bufop'.text)
                ELSE cstdout_buf' = <<>> ]_vars

\* Text was buffered, then a write with text on both sides of its newline
\* left the text after the newline.
C11_Witness ==
    /\ ~aborted
    /\ bufop.op = "write" /\ bufop.text = <<"x", NL, "x">>
    /\ written = <<"x", "x", NL, "x">>
    /\ records = << <<"x", "x">> >>
    /\ cstdout_buf = <<"x">>

----------------------------------------------------------------------------
(* Claims on selecting an operation, checked under SpecHost *)

\* Thread t's last registry call was a select-and-execute call that found an
\* operation already selected (the only path on which the procedure
\* returns nonzero).
RefusedSelect(t) ==
    pc[t] = "idle" /\ hret[t].kind = "op_exec" /\ hret[t].proc # 0

\* C12: a select-and-execute call made through the registry on a started
\* service while an operation is already selected returns a failure status
\* to its caller.
C12_AlreadySelectedFails ==
    \A t \in Threads :
        (RefusedSelect(t) /\ svc_state = "LIVE" /\ svc_started = 1) => hret[t].ret # 0

\* Thread t's select-and-execute request is refused in this step.
RefusalStep(t) ==
    /\ pc[t] = "op_exec_check" /\ python__op_selected # 0
    /\ pc'[t] = "idle"

\* C13: a select-and-execute request made while an operation is already
\* selected, for the same or another operation, leaves the recorded
\* selection, the namespace binding and the token as they were: no exec
\* snippet runs and the token is not acquired.
C13_RefusalChangesNothing ==
    [][ \A t \in Threads :
          RefusalStep(t) =>
            /\ UNCHANGED <<python__op, python__op_selected, ns_op>>
            /\ UNCHANGED <<gil, tstate_current, python__thread_state>>
            /\ hret'[t].proc = 1 ]_vars

\* A request was refused while the controller of the selected operation is
\* running and the token is parked.
C13_Witness ==
    /\ RefusedSelect("main")
    /\ svc_state = "LIVE" /\ svc_started = 1
    /\ python__op_selected = 1 /\ python__op = "interact"
    /\ ns_op = [ctl |-> "interact", state |-> "started"]
    /\ gil = "none" /\ python__thread_state["main"] = "TS"

\* Thread t records its selection in this step.
SelectStep(t) == pc[t] = "op_exec_select" /\ pc'[t] = "acquire"

\* C14: however the select-and-execute calls of several threads interleave,
\* at most one of them records a selection between a start and the following
\* stop: on a started service no call records one while a selection is
\* already recorded.
C14_OneSelection ==
    [][ \A t \in Threads :
          (SelectStep(t) /\ svc_state = "LIVE" /\ svc_started = 1) =>
              python__op_selected = 0 ]_vars

----------------------------------------------------------------------------
(* Claims on the op binding, checked under SpecHost *)

\* Thread t's forwarding snippet runs to its end in this step: the method
\* was invoked on the controller bound to op.
ForwardedStep(t) ==
    pc[t] = "run" /\ job[t].kind = "fwd" /\ pc'[t] = "release"

\* C15: after a stop of a service that had executed an operation the op
\* binding is torn down: until a new select-and-execute, a forwarding call
\* invokes no method on the controller of the earlier exec (it raises).
C15_BindingTornDown ==
    [][ \A t \in Threads :
          (ForwardedStep(t) /\ svc_state = "LIVE") => python__op_selected # 0 ]_vars

----------------------------------------------------------------------------
(* Claims on the console's interrupt flag, checked under SpecConsole *)

\* A get-and-clear call on the loaded and started console reads the flag in
\* this step.
FlagReadStep ==
    /\ ncon' = ncon + 1 /\ conop'.op = "read"
    /\ svc_state = "LIVE" /\ svc_started = 1

\* C16: once the input thread has handled the line "stop", the next
\* get-and-clear call returns true; the calls after it return false until
\* "stop" is handled again (or SIGINT sets the flag).
C16_TrueOncePerStop ==
    [][ FlagReadStep =>
          /\ stop_seen => out_interrupted' = 1
          /\ (~stop_seen /\ ~sig_seen) => out_interrupted' = 0 ]_vars

\* C17: get-and-clear reads and resets the flag atomically, so no set is
\* lost: between two calls, a set that no call has reported is still in the
\* flag for the next call to report.
C17_NoLostSet ==
    (cpc = "idle" /\ unreported /\ svc_state = "LIVE") => console__interrupted = 1

----------------------------------------------------------------------------
(* Claims on callback codes and return codes, checked under SpecRegistry *)

\* A lifecycle call on a service that is unloaded or loaded (its state object
\* live) invokes the service's callback in this step.
CallbackStep ==
    /\ hist' # hist
    /\ svc_state \in {"NULL", "LIVE"}
    /\ last'.op \in {"load", "start", "stop", "unload"}
    /\ last'.invoked # <<>>

\* What a lifecycle call that reaches its callback leaves in svc->state and in
\* the started flag, whatever the callback returns.
AfterCallback(op) ==
    CASE op = "load"   -> <<"LIVE", 0>>
      [] op = "start"  -> <<svc_state, 1>>
      [] op = "stop"   -> <<svc_state, 0>>
      [] op = "unload" -> <<"FREED", svc_started>>

\* C18: for load, start, stop and unload, the status returned and the
\* resulting lifecycle state are the same whether the callback returns zero
\* or nonzero: a failing callback neither blocks nor reverts the transition.
C18_CallbackCodeIgnored ==
    [][ CallbackStep =>
          /\ last'.ret = 0
          /\ <<svc_state', svc_started'>> = AfterCallback(last'.op) ]_vars

\* on_start returned nonzero and the service is started.
C18_Witness ==
    /\ last.op = "start" /\ last.invoked = <<"on_start">> /\ last.code = 1
    /\ last.ret = 0
    /\ svc_state = "LIVE" /\ svc_started = 1

----------------------------------------------------------------------------
(* Claims on the status of service_call, checked under SpecHost *)

\* Thread t's last registry call was a service_call that reached a procedure
\* of the started service and returned.
DispatchedCallReturned(t) ==
    pc[t] = "idle" /\ hret[t].kind \in {"op_exec", "fwd"}

\* C19: a service_call on a started service returns success whatever the
\* procedure it resolved returns; a call whose snippet raised an interpreter
\* exception reports success as well.
C19_CallReturnsSuccess ==
    \A t \in Threads : DispatchedCallReturned(t) => hret[t].ret = 0

\* A forwarding call whose snippet raised (the procedure returned 1) has
\* returned 0 to its caller on the started service.
C19_Witness ==
    /\ svc_state = "LIVE" /\ svc_started = 1
    /\ pc["main"] = "idle"
    /\ hret["main"].kind = "fwd" /\ hret["main"].proc = 1 /\ hret["main"].ret = 0

----------------------------------------------------------------------------
(* Claims on refused lifecycle calls, checked under SpecRegistry *)

\* service_load returns in this step, called on a service whose state object
\* is live (loaded, started or not).
LoadOnLoadedStep ==
    /\ hist' # hist
    /\ last'.op = "load"
    /\ svc_state = "LIVE"

\* C20: service_load on a service that is loaded or started returns failure,
\* does not invoke on_load and leaves the lifecycle state, the started flag
\* included, as it was.
C20_LoadRefusedWhenLoaded ==
    [][ LoadOnLoadedStep =>
          /\ last'.ret # 0
          /\ last'.invoked = <<>>
          /\ UNCHANGED <<svc_state, svc_started>> ]_vars

\* service_load was refused on a started service, which is still started.
C20_Witness ==
    /\ last.op = "load" /\ last.ret = 1 /\ last.invoked = <<>>
    /\ svc_state = "LIVE" /\ svc_started = 1 /\ svc_iface

\* service_unload ends in this step (it returns or the process dies in it),
\* called on a service that was never loaded or has been unloaded.
UnloadOnUnloadedStep ==
    /\ hist' # hist \/ aborted' # aborted
    /\ last'.op = "unload"
    /\ svc_state \in {"NULL", "FREED"}

\* C21: service_unload on an unloaded service returns failure and does not
\* invoke on_unload, for a service that was never loaded as for one that has
\* already been unloaded (a second unload in a row fails).
C21_UnloadRefusedWhenUnloaded ==
    [][ UnloadOnUnloadedStep =>
          /\ last'.ret = 1
          /\ last'.invoked = <<>> ]_vars

\* The service is unloaded: never loaded, or unloaded since its last load.
IsUnloaded == svc_state \in {"NULL", "FREED"}

\* service_start ends in this step, called on an unloaded service or on a
\* started one.
StartRefusableStep ==
    /\ hist' # hist \/ aborted' # aborted
    /\ last'.op = "start"
    /\ IsUnloaded \/ (svc_state = "LIVE" /\ svc_started = 1)

\* C22: service_start on an unloaded service or on an already started one
\* returns failure, does not invoke on_start and leaves the state unchanged.
C22_StartRefused ==
    [][ StartRefusableStep =>
          /\ last'.ret = 1
          /\ last'.invoked = <<>>
          /\ UNCHANGED <<svc_state, svc_started>> ]_vars

\* service_stop ends in this step, called on an unloaded service or on a
\* loaded one that is not started.
StopRefusableStep ==
    /\ hist' # hist \/ aborted' # aborted
    /\ last'.op = "stop"
    /\ IsUnloaded \/ (svc_state = "LIVE" /\ svc_started = 0)

\* C23: service_stop on an unloaded service or on a loaded one that is not
\* started returns failure, does not invoke on_stop and leaves the state
\* unchanged; a stop that succeeds invokes on_stop once and leaves the
\* service loaded and not started.
C23_StopRefused ==
    [][ /\ StopRefusableStep =>
            /\ last'.ret = 1
            /\ last'.invoked = <<>>
            /\ UNCHANGED <<svc_state, svc_started>>
        /\ (hist' # hist /\ last'.op = "stop" /\ last'.ret = 0) =>
            /\ last'.invoked = Callback("on_stop")
            /\ svc_state' # "NULL" /\ svc_started' = 0 ]_vars

----------------------------------------------------------------------------
(* Claims on the console's signal handling, checked under SpecConsole *)

\* The console service is started: its state object is live and flagged.
ConsoleStarted == svc_state = "LIVE" /\ svc_started = 1

\* C24: while the console service is started SIGINT is captured by the
\* console's handler, so that its delivery sets the interrupt flag and does
\* not terminate the process; after unload SIGINT has its default handling.
C24_SigintCaptured ==
    /\ [](ConsoleStarted => sigint_handler = "console__sigint")
    /\ [](svc_state = "FREED" => sigint_handler = "SIG_DFL")
    /\ [][ (console__sigint /\ ConsoleStarted) =>
              (console__interrupted' = 1 /\ ~aborted') ]_vars

\* SIGINT was delivered to the started console: the flag is set and the
\* process lives.
C24_Witness ==
    /\ ConsoleStarted
    /\ conop.op = "sigint"
    /\ console__interrupted = 1
    /\ ~aborted

----------------------------------------------------------------------------
(* Further claims on flush and on single writes, checked under SpecBuf *)

\* A flush is made in this step.
FlushStep == nbufops' = nbufops + 1 /\ bufop'.op = "flush"

\* C25: flush emits a record only when the buffered text is not empty: after
\* any sequence of writes a flush never emits an empty record, and a second
\* flush in a row emits nothing.
C25_FlushNeverEmitsEmpty ==
    [][ FlushStep =>
          /\ records' = records \/ records' = Append(records, cstdout_buf)
          /\ records' # records => cstdout_buf # <<>>
          /\ bufop.op = "flush" => records' = records ]_vars

\* A text without newline is written in this step.
PlainWriteStep ==
    /\ nbufops' = nbufops + 1
    /\ bufop'.op = "write"
    /\ strchr_nl(bufop'.text) = 0

\* C26: a write whose text contains no newline emits no record and changes
\* the buffer to exactly its previous contents followed by the text.
C26_PlainWriteAppends ==
    [][ PlainWriteStep =>
          /\ records' = records
          /\ bufop'.emitted = 0
          /\ cstdout_buf' = cstdout_buf \o bufop'.text
          /\ cstdout_buf_len' = Len(cstdout_buf') ]_vars

\* "x" was written after "x": the buffer holds "xx" and nothing was emitted.
C26_Witness ==
    /\ bufop.op = "write" /\ bufop.text = <<"x">>
    /\ written = <<"x", "x">>
    /\ cstdout_buf = <<"x", "x">>
    /\ records = <<>>

\* The records, each followed by a newline, one after the other.
RECURSIVE JoinRecords(_)
JoinRecords(rs) ==
    IF rs = <<>> THEN <<>> ELSE Head(rs) \o <<NL>> \o JoinRecords(Tail(rs))

\* Everything handed to write so far, the text of a write the process died
\* in included.
WrittenSoFar == IF aborted THEN written \o bufop.text ELSE written

\* C27: after every prefix of a sequence of writes to one buffer, without any
\* flush, the records emitted, a newline after each, followed by the buffer's
\* contents are the concatenation of everything written so far: no character
\* is lost or duplicated.
C27_NothingLostOrDuplicated ==
    nflush = 0 => JoinRecords(records) \o cstdout_buf = WrittenSoFar

----------------------------------------------------------------------------
(* Claims on the sinks of several threads, checked under SpecSinks *)

\* Thread t writes to or flushes its sink x in this step.
SinkStep(t, x) == nsink' = nsink + 1 /\ sinkop'.t = t /\ sinkop'.x = x

\* C28: the output buffers are per thread and per stream: a write or a flush
\* on stream x from thread t changes only the buffer of (t, x), never the
\* other stream's buffer nor another thread's, and the first record it emits
\* is the partial line of (t, x) followed by text of this write: partial
\* lines of different threads are never merged into one record.
C28_BuffersPerThreadAndStream ==
    [][ \A t \in Threads, x \in Streams :
          SinkStep(t, x) =>
            /\ \A k \in Threads \X Streams :
                  k # <<t, x>> => sink_buf'[k] = sink_buf[k]
            /\ \A i \in (Len(sink_records) + 1)..Len(sink_records') :
                  /\ sink_records'[i].t = t
                  /\ sink_records'[i].level = LogLevel(x)
            /\ Len(sink_records') > Len(sink_records) =>
                  \E n \in 0..Len(sinkop'.text) :
                     sink_records'[Len(sink_records) + 1].text
                        = sink_buf[<<t, x>>].buf \o SubSeq(sinkop'.text, 1, n) ]_vars

\* Each thread has a partial line buffered on stdout, the second thread also
\* one on stderr, and the second thread's newline on stdout emitted its own
\* partial line only.
C28_Witness ==
    /\ ~aborted
    /\ sinkop = [op |-> "write", t |-> "other", x |-> "stdout", text |-> <<NL>>]
    /\ sink_records = << [level |-> "info", t |-> "other", text |-> <<"x">>] >>
    /\ sink_buf[<<"main", "stdout">>].buf = <<"x">>
    /\ sink_buf[<<"other", "stderr">>].buf = <<"x">>
    /\ sink_buf[<<"other", "stdout">>].null

----------------------------------------------------------------------------
(* Claims on on_stop, on_load and on_start of the host, checked under SpecHost *)

\* on_stop runs on thread t in this step, from its acquire to its release.
OnStopStep(t) ==
    pc[t] = "run" /\ job[t].kind = "stop" /\ pc'[t] = "release"

\* Thread t's service_stop has gone through on_stop and returned.
StopReturned(t) ==
    pc[t] = "idle" /\ hret[t].kind = "stop" /\ hret[t].proc # -1

\* C29: on_stop with an operation selected runs the stop snippet of that
\* operation, once, clears the selection and parks the token; with none
\* selected it runs no snippet. The stop has then returned with no operation
\* selected (no other select-and-execute call being under way), so that after
\* a new start a select-and-execute of any operation is accepted.
C29_OnStop ==
    /\ [][ \A t \in Threads :
             OnStopStep(t) =>
               IF python__op_selected # 0
                 THEN /\ job'[t].op = python__op
                      /\ ns_op' = AfterStopSnippet
                      /\ python__op_selected' = 0
                 ELSE /\ job'[t].op = "none"
                      /\ UNCHANGED <<ns_op, python__op_selected>> ]_vars
    /\ [](\A t \in Threads :
             StopReturned(t) =>
               /\ gil = "none" /\ python__thread_state[t] = "TS"
               /\ (\A u \in Threads : job[u].kind # "op_exec") => python__op_selected = 0)

\* on_stop has run the stop snippet of the interact operation on its started
\* controller and cleared the selection.
C29_Witness ==
    /\ pc["main"] = "release" /\ job["main"].kind = "stop"
    /\ job["main"].op = "interact"
    /\ ns_op = [ctl |-> "interact", state |-> "stopped"]
    /\ python__op_selected = 0

\* Thread t's service_load or service_start has gone through on_load or
\* on_start and returned.
LoadOrStartReturned(t) ==
    pc[t] = "idle" /\ hret[t].kind \in {"load", "start"} /\ hret[t].proc # -1

\* C30: after on_load has returned, and after on_start has returned on any
\* of its paths, successful or failing, the token is parked: no thread holds
\* it, and it is saved in the slot of the thread that parked it.
C30_ParkedAfterLoadAndStart ==
    \A t \in Threads :
        LoadOrStartReturned(t) =>
            /\ gil = "none"
            /\ tstate_current = "NULL"
            /\ python__thread_state[t] = "TS"

\* on_start has returned on a failure path and the token is parked.
C30_Witness ==
    /\ pc["main"] = "idle"
    /\ hret["main"].kind = "start" /\ hret["main"].proc = 1
    /\ svc_state = "LIVE" /\ svc_started = 1
    /\ gil = "none" /\ python__thread_state["main"] = "TS"

----------------------------------------------------------------------------
(* Claims on unloading a started host, checked under SpecHost *)

\* on_unload runs on thread t in this step and service_unload returns, the
\* service being started.
UnloadStartedStep(t) ==
    /\ pc[t] = "run" /\ job[t].kind = "unload" /\ pc'[t] = "idle"
    /\ svc_state = "LIVE" /\ svc_started = 1

\* C31: service_unload on a started service returns success and invokes
\* on_unload without on_stop: for the host no stop snippet is run, the
\* recorded selection is not cleared and the started flag is not taken back.
C31_UnloadWhileStarted ==
    [][ \A t \in Threads :
          UnloadStartedStep(t) =>
            /\ hret'[t].kind = "unload" /\ hret'[t].ret = 0 /\ hret'[t].proc = 0
            /\ UNCHANGED <<python__op, python__op_selected, svc_started>>
            /\ py' = "finalized" ]_vars

\* The started host was unloaded with the interact operation selected: the
\* selection is still recorded.
C31_Witness ==
    /\ pc["main"] = "idle"
    /\ hret["main"].kind = "unload" /\ hret["main"].ret = 0
    /\ svc_state = "FREED" /\ py = "finalized"
    /\ python__op_selected = 1 /\ python__op = "interact"

----------------------------------------------------------------------------
(* Claims on service_call, checked under SpecRegistry *)

\* service_call ends in this step, made on a started service that declares
\* no interface.
CallWithoutIfaceStep ==
    /\ hist' # hist \/ aborted' # aborted
    /\ last'.op = "call"
    /\ svc_state = "LIVE" /\ svc_started = 1 /\ ~svc_iface

\* C32: service_call on a started service that declares no capability
\* interface returns success, invokes nothing and changes no state.
C32_CallWithoutIface ==
    [][ CallWithoutIfaceStep =>
          /\ last'.ret = 0
          /\ last'.invoked = <<>>
          /\ UNCHANGED <<svc_state, svc_started, svc_iface, aborted>> ]_vars

\* An ordinal without procedure was called on a started service without
\* interface, and 0 was returned.
C32_Witness ==
    /\ last.op = "call" /\ last.fn = 3 /\ last.ret = 0 /\ last.invoked = <<>>
    /\ svc_state = "LIVE" /\ svc_started = 1 /\ ~svc_iface /\ ~aborted

----------------------------------------------------------------------------
(* Claims on the console's input thread, checked under SpecConsole *)

\* The input thread takes a line through one turn of its loop in this step.
LineStep == ncon' = ncon + 1 /\ conop'.op = "line"

\* C33: in the console input thread only a line equal to the literal "stop"
\* sets the interrupt flag; every other line, the empty line included, leaves
\* the flag unchanged, and the thread goes on to read the next line.
C33_OnlyStopSetsFlag ==
    [][ LineStep =>
          /\ console__interrupted' =
                (IF conop'.arg = "stop" THEN 1 ELSE console__interrupted)
          /\ input_threads' = input_threads
          /\ ~aborted' ]_vars

\* The line "stopx" went through the started console's input thread and the
\* flag is still clear.
C33_Witness ==
    /\ svc_state = "LIVE" /\ svc_started = 1 /\ input_threads = 1
    /\ conop.op = "line" /\ conop.arg = "stopx"
    /\ console__interrupted = 0
    /\ ~aborted

\* C34: for any sequence of registry calls on the console service at most one
\* console input thread exists at a time; one exists once start has returned
\* and none exists after stop has returned.
C34_OneInputThread ==
    /\ input_threads <= 1
    /\ (conop.op = "start" /\ conop.ret = 0) => input_threads = 1
    /\ (conop.op = "stop" /\ conop.ret = 0) => input_threads = 0

\* C35: service_call never invokes a missing procedure: whenever a call
\* reaches the interface's lookup with an ordinal the host declares (the
\* low-battery test ordinal that main issues included), the lookup yields a
\* procedure, that procedure is what is invoked, and the call returns.
C35_NoMissingProcedure ==
    (svc_state = "LIVE" /\ last.op = "call" /\ last.fn \in Ordinals
        /\ last.invoked # <<>>) =>
        /\ Len(last.invoked) = 2
        /\ last.invoked[2] # "NULL"
        /\ last.ret # -1

\* C36: in a write whose text holds a newline, the bytes copied into the
\* temporary concatenation buffer never exceed its allocated size (buffered
\* length + length of the text before the first newline + 1), texts with
\* characters after the first newline included.
C36_ConcatWithinAllocation ==
    (bufop.op = "write" /\ strchr_nl(bufop.text) # 0) =>
        bufop.copied <= bufop.alloc

\* Thread t is inside a procedure that service_call dispatched.
InProcedure(t) == job[t].kind \in {"op_exec", "fwd"} /\ pc[t] # "idle"

\* The control thread is inside the callback of the given lifecycle call.
InCallbackOf(kind) == job["main"].kind = kind /\ pc["main"] # "idle"

\* C37: with the control thread driving the lifecycle and another thread
\* issuing service_call, a dispatched procedure never runs before on_start
\* has returned nor after on_stop has begun: no procedure of the other thread
\* is in progress while the control thread is inside on_start or on_stop.
C37_ProcedureOnlyBetweenStartAndStop ==
    svc_state = "LIVE" =>
        \A t \in Threads \ {"main"} :
            InProcedure(t) => ~InCallbackOf("start") /\ ~InCallbackOf("stop")

\* C38: every call into the host returns: on a loaded service with the
\* interpreter up, no thread that entered a callback or procedure ends up
\* waiting for ever for the interpreter token; in particular the call that
\* follows a forwarding call whose snippet raised still acquires it.
C38_NoCallBlocksForever ==
    (svc_state = "LIVE" /\ py = "up") => \A t \in Threads : pc[t] # "blocked"

\* C39: whenever the host records an operation as selected and no
\* select-and-execute call is in progress, the namespace binds `op` to the
\* controller of the selected operation; a select-and-execute call whose
\* exec snippet raised leaves no selection behind without that binding.
C39_SelectedHasController ==
    (/\ svc_state = "LIVE"
     /\ py = "up"
     /\ python__op_selected # 0
     /\ \A t \in Threads : job[t].kind # "op_exec") =>
        ns_op.ctl = python__op

----------------------------------------------------------------------------
(* The two sinks compared, checked under SpecSinks *)

\* The texts of the records that thread and stream k has emitted, in order.
RecordTexts(k) ==
    LET own == SelectSeq(sink_records,
                         LAMBDA r : r.t = k[1] /\ r.level = LogLevel(k[2]))
    IN [i \in 1..Len(own) |-> own[i].text]

\* The buffer the last write or flush left (every buffer other than the
\* empty one was left by the write that was the last one at its time).
LastSinkBuf ==
    IF sinkop.op = "none" THEN NoSinkBuf ELSE sink_buf[<<sinkop.t, sinkop.x>>]

\* C40: the stderr sink and the stdout sink implement the same buffering:
\* from every buffer reached, a write of any text and a flush have the same
\* outcomes in both, and any two sinks that were fed the same sequence of
\* writes and flushes hold the same buffer and have emitted the same record
\* texts; the records differ in their level only.
C40_SinksBufferAlike ==
    /\ cstderr_flush_outcome(LastSinkBuf) = flush_outcome(LastSinkBuf)
    /\ \A string \in SinkTexts :
          cstderr_write_outcomes(LastSinkBuf, string)
              = write_outcomes(LastSinkBuf, string)
    /\ ~aborted =>
          \A j, k \in Threads \X Streams :
              sink_hist[j] = sink_hist[k] =>
                  /\ sink_buf[j] = sink_buf[k]
                  /\ RecordTexts(j) = RecordTexts(k)

\* One thread has made the same two writes on both streams, the second with
\* text after its newline on top of a buffered partial line: each sink
\* emitted "xx" at its own level and holds "y".
C40_Witness ==
    /\ ~aborted
    /\ sink_hist[<<"main", "stdout">>]
          = << <<"write", <<"x">>>>, <<"write", <<"x", NL, "y">>>> >>
    /\ sink_hist[<<"main", "stderr">>] = sink_hist[<<"main", "stdout">>]
    /\ sinkop.x = "stderr"
    /\ sink_buf[<<"main", "stderr">>].buf = <<"y">>
    /\ sink_records = << [level |-> "info", t |-> "main", text |-> <<"x", "x">>],
                         [level |-> "error", t |-> "main", text |-> <<"x", "x">>] >>

============================================================================
